---------------------------- MODULE Spec2Model ----------------------------
(***************************************************************************)
(* Merge-path CSR SpMV (cpu_spmv.cpp): the merge-path search, the          *)
(* partitioner OmpMergePartitionMatrix, the parallel kernel OmpMergeCsrmv  *)
(* with its serial carry-out fix-up, the reference SpmvGold and the        *)
(* repeated invocation of the kernel by TestOmpMergeCsrmv.                 *)
(*                                                                         *)
(* C arrays are functions on 0..len-1.  Element values are integers, so    *)
(* sums are exact.                                                         *)
(***************************************************************************)
EXTENDS Integers, Sequences, FiniteSets, TLC

\* ------------------------------------------------------------------ bounds
MaxRows    == 3      \* num_rows ranges over 1..MaxRows
MaxNnz     == 3      \* num_nonzeros ranges over 0..MaxNnz
MaxThreads == 3      \* num_threads ranges over 1..MaxThreads
MaxCalls   == 2      \* invocations of OmpMergeCsrmv by the driver
NumCols    == 2      \* num_cols of the matrices explored

ValueSet   == {1, 2}         \* matrix element values drawn for the model
GarbageSet == {-1, 9}        \* what vector_y_out holds before the first call

Unset == -99                 \* an uninitialised int / carry-out slot

IntMax == 2147483647         \* the largest int (OffsetT = int, int2 fields)
CarrySlots == 256            \* row_carry_out[256], value_carry_out[256]

VARIABLES
    \* the borrowed CSR matrix and the vectors
    num_rows, num_cols, num_nonzeros, row_offsets, column_indices, values,
    vector_x, num_threads,
    vector_y_out,
    \* driver position and number of completed kernel invocations
    pc, calls,
    \* OmpMergePartitionMatrix: output descriptors, per-tid loop position
    thread_coords, thread_coord_ends, part_pc,
    \* OmpMergeCsrmv: per-tid position and local copies, carry-out scratch,
    \* fix-up loop counter
    worker_pc, thread_coord, thread_coord_end,
    row_carry_out, value_carry_out, fix_tid,
    \* history: per row the writes made to vector_y_out in the current call,
    \* vector_y_out as the first call left it, and per tid the nonzero
    \* indices read in the current call
    y_log, y_first, nz_log,
    \* MergePathSearch run step by step on one diagonal
    diagonal, x_min, x_max, path_coordinate, search_pc

matrix_vars  == <<num_rows, num_cols, num_nonzeros, row_offsets,
                  column_indices, values, vector_x, num_threads>>
part_vars    == <<thread_coords, thread_coord_ends, part_pc>>
kernel_vars  == <<worker_pc, thread_coord, thread_coord_end, row_carry_out,
                  value_carry_out, fix_tid>>
search_vars  == <<diagonal, x_min, x_max, path_coordinate, search_pc>>
vars == <<matrix_vars, vector_y_out, pc, calls, part_vars, kernel_vars,
          y_log, y_first, nz_log, search_vars>>

Tids == 0 .. num_threads - 1
Rows == 0 .. num_rows - 1

Min(a, b) == IF a < b THEN a ELSE b
Max(a, b) == IF a > b THEN a ELSE b

\* an int2 {x, y}
Int2(px, py) == [x |-> px, y |-> py]

\* ------------------------------------------------------- well-formed CSR
WellFormedOffsets(m, nnz, ro) ==
    /\ ro[0] = 0
    /\ ro[m] = nnz
    /\ \A i \in 0 .. m - 1 : ro[i] <= ro[i + 1]

\* ------------------------------------------------------- MergePathSearch
\* List A is row_offsets + 1, list B is CountingInputIterator(0).
\* faulty variant: list A taken at row_offsets instead of row_offsets + 1
ListA_NoOffset(k) == row_offsets[k]

ListA(k) == row_offsets[k + 1]
\* faulty variant: the counting iterator started at 1
ListB_FromOne(k) == 1 + k

ListB(k) == 0 + k

Pivot(lo, hi) == (lo + hi) \div 2

\* faulty variant: ties broken towards list B
ContractUp_Strict(d, x_pivot) == ListA(x_pivot) < ListB(d - x_pivot - 1)

ContractUp(d, x_pivot) == ListA(x_pivot) <= ListB(d - x_pivot - 1)

\* faulty variant: the lower end of the search range is not clamped to d - b_len
SearchLo_Unclamped(d, b_len) == 0

SearchLo(d, b_len) == Max(d - b_len, 0)
SearchHi(d, a_len) == Min(d, a_len)

RECURSIVE SearchLoop(_, _, _)
SearchLoop(d, lo, hi) ==
    IF lo < hi
    THEN LET x_pivot == Pivot(lo, hi)
         IN  IF ContractUp(d, x_pivot)
             THEN SearchLoop(d, x_pivot + 1, hi)
             ELSE SearchLoop(d, lo, x_pivot)
    ELSE lo

\* the reads of that loop: <<index into row_offsets, index into list B>>
RECURSIVE SearchReads(_, _, _)
SearchReads(d, lo, hi) ==
    IF lo < hi
    THEN LET x_pivot == Pivot(lo, hi)
         IN  {<<x_pivot + 1, d - x_pivot - 1>>} \cup
             (IF ContractUp(d, x_pivot)
              THEN SearchReads(d, x_pivot + 1, hi)
              ELSE SearchReads(d, lo, x_pivot))
    ELSE {}

Coordinate(d, xm, a_len) == Int2(Min(xm, a_len), d - xm)

MergePathSearch(d, a_len, b_len) ==
    Coordinate(d, SearchLoop(d, SearchLo(d, b_len), SearchHi(d, a_len)), a_len)

\* ------------------------------------------------- OmpMergePartitionMatrix
NumMergeItems == num_rows + num_nonzeros

\* faulty variant: the quantum rounded down
ItemsPerThread_Floor == NumMergeItems \div num_threads

ItemsPerThread == (NumMergeItems + num_threads - 1) \div num_threads

\* faulty variant: thread ids counted from 1
StartDiagonal_OneBased(tid) ==
    Min(ItemsPerThread * (tid + 1), NumMergeItems)

StartDiagonal(tid) == Min(ItemsPerThread * tid, NumMergeItems)

\* faulty variant: the end diagonal taken as the last item of the range
EndDiagonal_Inclusive(tid) ==
    Min(StartDiagonal(tid) + ItemsPerThread - 1, NumMergeItems)

EndDiagonal(tid) == Min(StartDiagonal(tid) + ItemsPerThread, NumMergeItems)

\* int arithmetic on non-negative operands: whether a + b, a * b fit an int
AddFits(a, b) == a <= IntMax - b
MulFits(a, b) == b = 0 \/ a <= IntMax \div b

\* whether the index computations of thread tid stay within int:
\* num_rows + num_nonzeros, (num_merge_items + num_threads) - 1,
\* items_per_thread * tid, start_diagonal + items_per_thread
PartitionFits(tid) ==
    /\ AddFits(num_rows, num_nonzeros)
    /\ AddFits(NumMergeItems, num_threads)
    /\ MulFits(ItemsPerThread, tid)
    /\ AddFits(StartDiagonal(tid), ItemsPerThread)

\* Signed overflow is undefined: what a build may leave in a descriptor.
\* Wrap-around arithmetic on num_rows = 1, num_nonzeros = IntMax,
\* num_threads = 1 leaves (num_rows, num_nonzeros) in both descriptors.
OverflowOutcomes ==
    {Int2(num_rows, num_nonzeros), Int2(0, 0), Int2(Unset, Unset)}

\* one iteration of the parallel for: both searches of thread tid
PartitionThread(tid) ==
    /\ pc = "partition"
    /\ part_pc[tid] = "todo"
    /\ IF PartitionFits(tid)
       THEN /\ thread_coords' = [thread_coords EXCEPT ![tid] =
                    MergePathSearch(StartDiagonal(tid), num_rows, num_nonzeros)]
            /\ thread_coord_ends' = [thread_coord_ends EXCEPT ![tid] =
                    MergePathSearch(EndDiagonal(tid), num_rows, num_nonzeros)]
       ELSE \E c1, c2 \in OverflowOutcomes :
                /\ thread_coords' = [thread_coords EXCEPT ![tid] = c1]
                /\ thread_coord_ends' = [thread_coord_ends EXCEPT ![tid] = c2]
    /\ part_pc' = [part_pc EXCEPT ![tid] = "done"]
    /\ UNCHANGED <<matrix_vars, vector_y_out, pc, calls, kernel_vars, y_log,
                   y_first, nz_log, search_vars>>

\* the implicit barrier that ends the parallel for; the driver then
\* memsets vector_y_out (it already holds the drawn garbage)
PartitionJoin ==
    /\ pc = "partition"
    /\ \A t \in Tids : part_pc[t] = "done"
    /\ pc' = "ready"
    /\ UNCHANGED <<matrix_vars, vector_y_out, calls, part_vars, kernel_vars,
                   y_log, y_first, nz_log, search_vars>>

\* ------------------------------------------------------------- SpmvGold
Product(offset) == values[offset] * vector_x[column_indices[offset]]

RECURSIVE GoldPartial(_, _, _)
GoldPartial(partial, offset, row) ==
    IF offset < row_offsets[row + 1]
    THEN GoldPartial(partial + Product(offset), offset + 1, row)
    ELSE partial

SpmvGold == [row \in Rows |-> GoldPartial(0, row_offsets[row], row)]

\* ---------------------------------------------------------- OmpMergeCsrmv
\* for (; y < limit; ++y) running_total += values[y] * vector_x[column_indices[y]]
RECURSIVE Accumulate(_, _, _)
Accumulate(running_total, y, limit) ==
    IF y < limit
    THEN Accumulate(running_total + values[y] * vector_x[column_indices[y]],
                    y + 1, limit)
    ELSE running_total

\* where the loop above leaves thread_coord.y
Advance(y, limit) == IF y < limit THEN limit ELSE y

\* the indices y, y + 1, .., limit - 1 that loop reads values and
\* column_indices at, in order
ReadRange(y, limit) == [k \in 1 .. Max(limit - y, 0) |-> y + k - 1]

LogAssign(tid) == [op |-> "assign", tid |-> tid]
LogAdd(tid)    == [op |-> "add", tid |-> tid]

\* entry of a call and the fork of the parallel for: fresh carry-out
\* scratch, every thread loads its two descriptors
KernelFork ==
    /\ pc = "ready"
    /\ calls < MaxCalls
    /\ pc' = "parallel"
    /\ worker_pc' = [t \in Tids |-> "rows"]
    /\ thread_coord' = thread_coords
    /\ thread_coord_end' = thread_coord_ends
    /\ row_carry_out' = [t \in Tids |-> Unset]
    /\ value_carry_out' = [t \in Tids |-> Unset]
    /\ fix_tid' = Unset
    /\ y_log' = [r \in Rows |-> <<>>]
    /\ nz_log' = [t \in Tids |-> <<>>]
    /\ UNCHANGED <<matrix_vars, vector_y_out, calls, part_vars, y_first,
                   search_vars>>

\* faulty variant: the row total added into y instead of assigned
WorkerRow_AddAssign(tid) ==
    /\ pc = "parallel"
    /\ worker_pc[tid] = "rows"
    /\ thread_coord[tid].x < thread_coord_end[tid].x
    /\ LET row   == thread_coord[tid].x
           limit == row_offsets[row + 1]
           running_total == Accumulate(0, thread_coord[tid].y, limit)
       IN  /\ vector_y_out' = [vector_y_out EXCEPT ![row] = @ + running_total]
           /\ thread_coord' = [thread_coord EXCEPT ![tid] =
                                 Int2(row + 1, Advance(thread_coord[tid].y, limit))]
           /\ y_log' = [y_log EXCEPT ![row] = Append(@, LogAssign(tid))]
    /\ nz_log' = [nz_log EXCEPT ![tid] =
                     @ \o ReadRange(thread_coord[tid].y,
                                 row_offsets[thread_coord[tid].x + 1])]
    /\ UNCHANGED <<matrix_vars, pc, calls, part_vars, worker_pc,
                   thread_coord_end, row_carry_out, value_carry_out, fix_tid,
                   y_first, search_vars>>

\* faulty variant: every row is summed from its first nonzero
WorkerRow_FromRowStart(tid) ==
    /\ pc = "parallel"
    /\ worker_pc[tid] = "rows"
    /\ thread_coord[tid].x < thread_coord_end[tid].x
    /\ LET row   == thread_coord[tid].x
           limit == row_offsets[row + 1]
           running_total == Accumulate(0, row_offsets[row], limit)
       IN  /\ vector_y_out' = [vector_y_out EXCEPT ![row] = running_total]
           /\ thread_coord' = [thread_coord EXCEPT ![tid] =
                                 Int2(row + 1, Advance(thread_coord[tid].y, limit))]
           /\ y_log' = [y_log EXCEPT ![row] = Append(@, LogAssign(tid))]
           /\ nz_log' = [nz_log EXCEPT ![tid] =
                            @ \o ReadRange(row_offsets[row], limit)]
    /\ UNCHANGED <<matrix_vars, pc, calls, part_vars, worker_pc,
                   thread_coord_end, row_carry_out, value_carry_out, fix_tid,
                   y_first, search_vars>>

\* one iteration of "consume whole rows"
WorkerRow(tid) ==
    /\ pc = "parallel"
    /\ worker_pc[tid] = "rows"
    /\ thread_coord[tid].x < thread_coord_end[tid].x
    /\ LET row   == thread_coord[tid].x
           limit == row_offsets[row + 1]
           running_total == Accumulate(0, thread_coord[tid].y, limit)
       IN  /\ vector_y_out' = [vector_y_out EXCEPT ![row] = running_total]
           /\ thread_coord' = [thread_coord EXCEPT ![tid] =
                                 Int2(row + 1, Advance(thread_coord[tid].y, limit))]
           /\ y_log' = [y_log EXCEPT ![row] = Append(@, LogAssign(tid))]
    /\ nz_log' = [nz_log EXCEPT ![tid] =
                     @ \o ReadRange(thread_coord[tid].y,
                                 row_offsets[thread_coord[tid].x + 1])]
    /\ UNCHANGED <<matrix_vars, pc, calls, part_vars, worker_pc,
                   thread_coord_end, row_carry_out, value_carry_out, fix_tid,
                   y_first, search_vars>>

\* faulty variant: the partial sum of the last row is also stored into y directly
WorkerTail_DirectWrite(tid) ==
    /\ pc = "parallel"
    /\ worker_pc[tid] = "rows"
    /\ ~(thread_coord[tid].x < thread_coord_end[tid].x)
    /\ LET running_total == Accumulate(0, thread_coord[tid].y,
                                       thread_coord_end[tid].y)
           row == thread_coord_end[tid].x
       IN  /\ row_carry_out' = [row_carry_out EXCEPT ![tid] = row]
           /\ value_carry_out' = [value_carry_out EXCEPT ![tid] = running_total]
           /\ thread_coord' = [thread_coord EXCEPT ![tid].y =
                                 Advance(@, thread_coord_end[tid].y)]
           /\ IF row < num_rows
              THEN /\ vector_y_out' = [vector_y_out EXCEPT ![row] = running_total]
                   /\ y_log' = [y_log EXCEPT ![row] = Append(@, LogAssign(tid))]
              ELSE UNCHANGED <<vector_y_out, y_log>>
    /\ worker_pc' = [worker_pc EXCEPT ![tid] = "done"]
    /\ nz_log' = [nz_log EXCEPT ![tid] =
                     @ \o ReadRange(thread_coord[tid].y, thread_coord_end[tid].y)]
    /\ UNCHANGED <<matrix_vars, pc, calls, part_vars, thread_coord_end,
                   fix_tid, y_first, search_vars>>

\* faulty variant: the partial sum of the last row is dropped, 0 is carried out
WorkerTail_NoCarry(tid) ==
    /\ pc = "parallel"
    /\ worker_pc[tid] = "rows"
    /\ ~(thread_coord[tid].x < thread_coord_end[tid].x)
    /\ row_carry_out' = [row_carry_out EXCEPT ![tid] = thread_coord_end[tid].x]
    /\ value_carry_out' = [value_carry_out EXCEPT ![tid] = 0]
    /\ thread_coord' = [thread_coord EXCEPT ![tid].y =
                          Advance(@, thread_coord_end[tid].y)]
    /\ worker_pc' = [worker_pc EXCEPT ![tid] = "done"]
    /\ nz_log' = [nz_log EXCEPT ![tid] =
                     @ \o ReadRange(thread_coord[tid].y, thread_coord_end[tid].y)]
    /\ UNCHANGED <<matrix_vars, vector_y_out, pc, calls, part_vars,
                   thread_coord_end, fix_tid, y_log, y_first, search_vars>>

\* "consume partial portion of thread's last row" and "save carry-outs"
WorkerTail(tid) ==
    /\ pc = "parallel"
    /\ worker_pc[tid] = "rows"
    /\ ~(thread_coord[tid].x < thread_coord_end[tid].x)
    /\ LET running_total == Accumulate(0, thread_coord[tid].y,
                                       thread_coord_end[tid].y)
       IN  /\ row_carry_out' = [row_carry_out EXCEPT ![tid] =
                                  thread_coord_end[tid].x]
           /\ value_carry_out' = [value_carry_out EXCEPT ![tid] = running_total]
           /\ thread_coord' = [thread_coord EXCEPT ![tid].y =
                                 Advance(@, thread_coord_end[tid].y)]
    /\ worker_pc' = [worker_pc EXCEPT ![tid] = "done"]
    /\ nz_log' = [nz_log EXCEPT ![tid] =
                     @ \o ReadRange(thread_coord[tid].y, thread_coord_end[tid].y)]
    /\ UNCHANGED <<matrix_vars, vector_y_out, pc, calls, part_vars,
                   thread_coord_end, fix_tid, y_log, y_first, search_vars>>

\* faulty variant: the serial code goes on as soon as one thread is done
KernelJoin_NoBarrier ==
    /\ pc = "parallel"
    /\ \E t \in Tids : worker_pc[t] = "done"
    /\ pc' = "fixup"
    /\ fix_tid' = 0
    /\ UNCHANGED <<matrix_vars, vector_y_out, calls, part_vars, worker_pc,
                   thread_coord, thread_coord_end, row_carry_out,
                   value_carry_out, y_log, y_first, nz_log, search_vars>>

\* the implicit barrier at the end of the parallel for
KernelJoin ==
    /\ pc = "parallel"
    /\ \A t \in Tids : worker_pc[t] = "done"
    /\ pc' = "fixup"
    /\ fix_tid' = 0
    /\ UNCHANGED <<matrix_vars, vector_y_out, calls, part_vars, worker_pc,
                   thread_coord, thread_coord_end, row_carry_out,
                   value_carry_out, y_log, y_first, nz_log, search_vars>>

\* faulty variant: the fix-up loop stops one thread early
FixupBound_Short == num_threads - 2

FixupBound == num_threads - 1

\* faulty variant: the fix-up loop visits the threads in descending order
FixupStep_Descending ==
    /\ pc = "fixup"
    /\ fix_tid < FixupBound
    /\ LET tid == FixupBound - 1 - fix_tid
       IN  IF row_carry_out[tid] < num_rows
           THEN /\ vector_y_out' = [vector_y_out EXCEPT ![row_carry_out[tid]] =
                                       @ + value_carry_out[tid]]
                /\ y_log' = [y_log EXCEPT ![row_carry_out[tid]] =
                               Append(@, LogAdd(tid))]
           ELSE UNCHANGED <<vector_y_out, y_log>>
    /\ fix_tid' = fix_tid + 1
    /\ UNCHANGED <<matrix_vars, pc, calls, part_vars, worker_pc, thread_coord,
                   thread_coord_end, row_carry_out, value_carry_out, y_first, nz_log,
                   search_vars>>

\* faulty variant: the row test of the fix-up leaves out the last row
FixupStep_RowCheckShort ==
    /\ pc = "fixup"
    /\ fix_tid < FixupBound
    /\ IF row_carry_out[fix_tid] < num_rows - 1
       THEN /\ vector_y_out' = [vector_y_out EXCEPT ![row_carry_out[fix_tid]] =
                                   @ + value_carry_out[fix_tid]]
            /\ y_log' = [y_log EXCEPT ![row_carry_out[fix_tid]] =
                           Append(@, LogAdd(fix_tid))]
       ELSE UNCHANGED <<vector_y_out, y_log>>
    /\ fix_tid' = fix_tid + 1
    /\ UNCHANGED <<matrix_vars, pc, calls, part_vars, worker_pc, thread_coord,
                   thread_coord_end, row_carry_out, value_carry_out, y_first,
                   nz_log, search_vars>>

\* one iteration of the carry-out fix-up loop
FixupStep ==
    /\ pc = "fixup"
    /\ fix_tid < FixupBound
    /\ IF row_carry_out[fix_tid] < num_rows
       THEN /\ vector_y_out' = [vector_y_out EXCEPT ![row_carry_out[fix_tid]] =
                                   @ + value_carry_out[fix_tid]]
            /\ y_log' = [y_log EXCEPT ![row_carry_out[fix_tid]] =
                           Append(@, LogAdd(fix_tid))]
       ELSE UNCHANGED <<vector_y_out, y_log>>
    /\ fix_tid' = fix_tid + 1
    /\ UNCHANGED <<matrix_vars, pc, calls, part_vars, worker_pc, thread_coord,
                   thread_coord_end, row_carry_out, value_carry_out, y_first, nz_log,
                   search_vars>>

\* the fix-up loop ends and the call returns to the driver
KernelReturn ==
    /\ pc = "fixup"
    /\ ~(fix_tid < FixupBound)
    /\ pc' = "ready"
    /\ calls' = calls + 1
    /\ y_first' = IF calls = 0 THEN vector_y_out ELSE y_first
    /\ UNCHANGED <<matrix_vars, vector_y_out, part_vars, kernel_vars, y_log,
                   nz_log, search_vars>>

\* ------------------------------------------------------------ the driver
\* The matrices explored: every well-formed row_offsets within the bounds.
InitShape ==
    /\ num_rows \in 1 .. MaxRows
    /\ num_nonzeros \in 0 .. MaxNnz
    /\ row_offsets \in {ro \in [0 .. num_rows -> 0 .. num_nonzeros] :
                          WellFormedOffsets(num_rows, num_nonzeros, ro)}

\* RunTests fills vector_x[col] = num_cols - col + 2
DriverX == [col \in 0 .. num_cols - 1 |-> num_cols - col + 2]

NoCoords == [t \in Tids |-> Int2(Unset, Unset)]
NoSlots  == [t \in Tids |-> Unset]

InitIdleKernel ==
    /\ worker_pc = [t \in Tids |-> "idle"]
    /\ thread_coord = NoCoords
    /\ thread_coord_end = NoCoords
    /\ row_carry_out = NoSlots
    /\ value_carry_out = NoSlots
    /\ fix_tid = Unset
    /\ y_log = [r \in Rows |-> <<>>]
    /\ y_first = [r \in Rows |-> Unset]
    /\ nz_log = [t \in Tids |-> <<>>]
    /\ calls = 0

InitIdleSearch ==
    /\ diagonal = Unset
    /\ x_min = Unset
    /\ x_max = Unset
    /\ path_coordinate = Int2(Unset, Unset)
    /\ search_pc = "idle"

\* TestOmpMergeCsrmv at entry: a matrix from the loaders (every shape within
\* the bounds, element values drawn from ValueSet, column j % num_cols), the
\* driver's vector_x, descriptors allocated and not yet written.
Init ==
    /\ InitShape
    /\ num_cols = NumCols
    /\ column_indices = [j \in 0 .. num_nonzeros - 1 |-> j % num_cols]
    /\ values \in [0 .. num_nonzeros - 1 -> ValueSet]
    /\ vector_x = DriverX
    /\ num_threads \in 1 .. MaxThreads
    /\ \E g \in GarbageSet : vector_y_out = [r \in Rows |-> g]
    /\ pc = "partition"
    /\ thread_coords = NoCoords
    /\ thread_coord_ends = NoCoords
    /\ part_pc = [t \in Tids |-> "todo"]
    /\ InitIdleKernel
    /\ InitIdleSearch

Next ==
    \/ \E tid \in Tids : PartitionThread(tid)
    \/ PartitionJoin
    \/ KernelFork
    \/ \E tid \in Tids : WorkerRow(tid)
    \/ \E tid \in Tids : WorkerTail(tid)
    \/ KernelJoin
    \/ FixupStep
    \/ KernelReturn

Spec == Init /\ [][Next]_vars

\* ------------------------------------- MergePathSearch, one step at a time
SearchEnter ==
    /\ search_pc = "call"
    /\ x_min' = SearchLo(diagonal, num_nonzeros)
    /\ x_max' = SearchHi(diagonal, num_rows)
    /\ search_pc' = "loop"
    /\ UNCHANGED <<matrix_vars, vector_y_out, pc, calls, part_vars,
                   kernel_vars, y_log, y_first, nz_log, diagonal, path_coordinate>>

SearchUp ==
    /\ search_pc = "loop"
    /\ x_min < x_max
    /\ ContractUp(diagonal, Pivot(x_min, x_max))
    /\ x_min' = Pivot(x_min, x_max) + 1
    /\ UNCHANGED <<matrix_vars, vector_y_out, pc, calls, part_vars,
                   kernel_vars, y_log, y_first, nz_log, diagonal, x_max,
                   path_coordinate, search_pc>>

\* faulty variant: the upper bound is moved below the pivot
SearchDown_Exclusive ==
    /\ search_pc = "loop"
    /\ x_min < x_max
    /\ ~ContractUp(diagonal, Pivot(x_min, x_max))
    /\ x_max' = Pivot(x_min, x_max) - 1
    /\ UNCHANGED <<matrix_vars, vector_y_out, pc, calls, part_vars,
                   kernel_vars, y_log, y_first, nz_log, diagonal, x_min,
                   path_coordinate, search_pc>>

SearchDown ==
    /\ search_pc = "loop"
    /\ x_min < x_max
    /\ ~ContractUp(diagonal, Pivot(x_min, x_max))
    /\ x_max' = Pivot(x_min, x_max)
    /\ UNCHANGED <<matrix_vars, vector_y_out, pc, calls, part_vars,
                   kernel_vars, y_log, y_first, nz_log, diagonal, x_min,
                   path_coordinate, search_pc>>

SearchExit ==
    /\ search_pc = "loop"
    /\ ~(x_min < x_max)
    /\ path_coordinate' = Coordinate(diagonal, x_min, num_rows)
    /\ search_pc' = "done"
    /\ UNCHANGED <<matrix_vars, vector_y_out, pc, calls, part_vars,
                   kernel_vars, y_log, y_first, nz_log, diagonal, x_min, x_max>>

InitSearch ==
    /\ InitShape
    /\ num_cols = NumCols
    /\ column_indices = [j \in 0 .. num_nonzeros - 1 |-> j % num_cols]
    /\ values = [j \in 0 .. num_nonzeros - 1 |-> 1]
    /\ vector_x = DriverX
    /\ num_threads = 1
    /\ vector_y_out = [r \in Rows |-> Unset]
    /\ pc = "search"
    /\ thread_coords = NoCoords
    /\ thread_coord_ends = NoCoords
    /\ part_pc = [t \in Tids |-> "todo"]
    /\ InitIdleKernel
    /\ diagonal \in 0 .. num_rows + num_nonzeros
    /\ x_min = Unset
    /\ x_max = Unset
    /\ path_coordinate = Int2(Unset, Unset)
    /\ search_pc = "call"

NextSearch == SearchEnter \/ SearchUp \/ SearchDown \/ SearchExit

SpecSearch == InitSearch /\ [][NextSearch]_vars

\* ------------------------- OmpMergePartitionMatrix on unchecked arguments
\* The call as any caller can make it: num_threads from the command line
\* (0 included), any num_rows >= 0 and any row_offsets array of that length.
ValidArguments ==
    /\ num_threads >= 1
    /\ num_rows >= 1
    /\ WellFormedOffsets(num_rows, num_nonzeros, row_offsets)

InitEntry ==
    /\ num_rows \in 0 .. MaxRows
    /\ num_nonzeros \in 0 .. MaxNnz
    /\ row_offsets \in [0 .. num_rows -> 0 .. num_nonzeros]
    /\ num_cols = NumCols
    /\ column_indices = [j \in 0 .. num_nonzeros - 1 |-> j % num_cols]
    /\ values = [j \in 0 .. num_nonzeros - 1 |-> 1]
    /\ vector_x = DriverX
    /\ num_threads \in 0 .. MaxThreads
    /\ vector_y_out = [r \in Rows |-> Unset]
    /\ pc = "partition"
    /\ thread_coords = NoCoords
    /\ thread_coord_ends = NoCoords
    /\ part_pc = [t \in Tids |-> "todo"]
    /\ InitIdleKernel
    /\ InitIdleSearch

NextPartition ==
    \/ \E tid \in Tids : PartitionThread(tid)
    \/ PartitionJoin

SpecEntry == InitEntry /\ [][NextPartition]_vars

\* ------------------- OmpMergePartitionMatrix on matrices near the int limit
\* Well-formed matrices with num_nonzeros up to IntMax; all nonzeros lie in
\* one row or are spread over two.  The partitioner reads neither values
\* nor column_indices, which are not materialised here.
WidthSlack == MaxRows + MaxThreads + 1

InitWidth ==
    /\ num_rows \in 1 .. MaxRows
    /\ num_nonzeros \in {IntMax - k : k \in 0 .. WidthSlack}
    /\ row_offsets \in {ro \in [0 .. num_rows -> {0, 1, num_nonzeros}] :
                          WellFormedOffsets(num_rows, num_nonzeros, ro)}
    /\ num_cols = NumCols
    /\ column_indices = <<>>
    /\ values = <<>>
    /\ vector_x = DriverX
    /\ num_threads \in 1 .. MaxThreads
    /\ vector_y_out = [r \in Rows |-> Unset]
    /\ pc = "partition"
    /\ thread_coords = NoCoords
    /\ thread_coord_ends = NoCoords
    /\ part_pc = [t \in Tids |-> "todo"]
    /\ InitIdleKernel
    /\ InitIdleSearch

SpecWidth == InitWidth /\ [][NextPartition]_vars

\* ------------------------------------------------------------- RunTests
\* pc names the branch of the if-chain that the command line selects, then
\* "timing" (past the chain), "trivial" (exit(0) after "Trivial dataset"),
\* "no_graph" -> "exit1", and the positions of TestOmpMergeCsrmv.
Generated == {"grid2d", "grid3d", "wheel", "dense"}
Branches  == {"mtx", "no_graph"} \cup Generated

\* coo_matrix.num_rows == 1 || num_cols == 1 || num_nonzeros == 1
TrivialTest == num_rows = 1 \/ num_cols = 1 \/ num_nonzeros = 1

DriverMarket ==
    /\ pc = "mtx"
    /\ pc' = IF TrivialTest THEN "trivial" ELSE "timing"
    /\ UNCHANGED <<matrix_vars, vector_y_out, calls, part_vars, kernel_vars,
                   y_log, y_first, nz_log, search_vars>>

DriverGenerated ==
    /\ pc \in Generated
    /\ pc' = "timing"
    /\ UNCHANGED <<matrix_vars, vector_y_out, calls, part_vars, kernel_vars,
                   y_log, y_first, nz_log, search_vars>>

DriverNoGraph ==
    /\ pc = "no_graph"
    /\ pc' = "exit1"
    /\ UNCHANGED <<matrix_vars, vector_y_out, calls, part_vars, kernel_vars,
                   y_log, y_first, nz_log, search_vars>>

\* timing_iterations = (16ull << 30) / num_nonzeros, then the call of
\* TestOmpMergeCsrmv; the division by zero is undefined (it may trap)
DriverTiming ==
    /\ pc = "timing"
    /\ pc' \in (IF num_nonzeros = 0 THEN {"fault", "partition"}
                                     ELSE {"partition"})
    /\ UNCHANGED <<matrix_vars, vector_y_out, calls, part_vars, kernel_vars,
                   y_log, y_first, nz_log, search_vars>>

\* The matrix each source yields.  A file holds any matrix; dense=c yields a
\* full matrix of c columns; the lattices and the wheel yield the square
\* adjacency matrix of a graph of at least one vertex.
InitSource ==
    /\ pc \in Branches
    /\ num_rows \in 0 .. MaxRows
    /\ num_cols \in 0 .. MaxRows
    /\ num_nonzeros \in 0 .. MaxNnz
    /\ num_nonzeros > 0 => num_rows > 0 /\ num_cols > 0
    /\ row_offsets \in {ro \in [0 .. num_rows -> 0 .. num_nonzeros] :
                          WellFormedOffsets(num_rows, num_nonzeros, ro)}
    /\ pc = "no_graph" => num_rows = 0 /\ num_cols = 0
    /\ pc = "dense" =>
          /\ num_rows >= 1 /\ num_cols >= 1
          /\ \A i \in 0 .. num_rows : row_offsets[i] = i * num_cols
    /\ pc \in Generated \ {"dense"} => num_rows >= 1 /\ num_cols = num_rows

InitDriver ==
    /\ InitSource
    /\ column_indices = [j \in 0 .. num_nonzeros - 1 |-> j % num_cols]
    /\ values = [j \in 0 .. num_nonzeros - 1 |-> 1]
    /\ vector_x = DriverX
    /\ num_threads \in 1 .. MaxThreads
    /\ vector_y_out = [r \in Rows |-> -1]
    /\ thread_coords = NoCoords
    /\ thread_coord_ends = NoCoords
    /\ part_pc = [t \in Tids |-> "todo"]
    /\ InitIdleKernel
    /\ InitIdleSearch

NextDriver ==
    \/ DriverMarket
    \/ DriverGenerated
    \/ DriverNoGraph
    \/ DriverTiming
    \/ Next

SpecDriver == InitDriver /\ [][NextDriver]_vars

\* ======================================================================
\* Properties
\* ======================================================================
PartitionDone == pc \in {"ready", "parallel", "fixup"}
CallReturned  == pc = "ready" /\ calls >= 1

Diag(c) == c.x + c.y

\* q = ceil(M / P): the least q with q * P >= M
Quantum ==
    CHOOSE q \in 0 .. NumMergeItems :
        /\ q * num_threads >= NumMergeItems
        /\ (q - 1) * num_threads < NumMergeItems

Span(t) == Diag(thread_coord_ends[t]) - Diag(thread_coords[t])

EmptyRow(i) == row_offsets[i] = row_offsets[i + 1]

\* the thread whose row range [start.x, end.x) holds row i
Owners(i) == {t \in Tids : thread_coords[t].x <= i /\ i < thread_coord_ends[t].x}

\* the threads whose carry-out the fix-up adds into row i
Carriers(i) == {t \in 0 .. num_threads - 2 : thread_coord_ends[t].x = i}

Assigners(i) == {y_log[i][k].tid : k \in {n \in 1 .. Len(y_log[i]) :
                                              y_log[i][n].op = "assign"}}

\* C1: after every call of OmpMergeCsrmv on the descriptors of
\* OmpMergePartitionMatrix, y[i] is the row sum SpmvGold computes, for every
\* row i and every worker count (so the result does not depend on P).
C1_MatchesGold == CallReturned => vector_y_out = SpmvGold

\* a call has returned in which a carry-out with a nonzero partial sum was
\* added into a row by the fix-up
C1_Witness ==
    /\ CallReturned
    /\ num_threads = MaxThreads
    /\ \E t \in 0 .. num_threads - 2 :
          row_carry_out[t] < num_rows /\ value_carry_out[t] > 0

\* C2: partition coverage: start[0] = (0,0), end[P-1] = (m, nnz) and
\* end[t] = start[t+1], also for nnz = 0 and for P > m + nnz.
C2_Coverage ==
    /\ part_pc[0] = "done" => thread_coords[0] = Int2(0, 0)
    /\ part_pc[num_threads - 1] = "done" =>
          thread_coord_ends[num_threads - 1] = Int2(num_rows, num_nonzeros)
    /\ \A t \in 0 .. num_threads - 2 :
          (part_pc[t] = "done" /\ part_pc[t + 1] = "done") =>
              thread_coord_ends[t] = thread_coords[t + 1]

\* the partition is complete for a matrix without nonzeros and more threads
\* than merge items
C2_Witness ==
    /\ PartitionDone
    /\ num_nonzeros = 0
    /\ num_threads > num_rows + num_nonzeros

\* C3: diagonal placement: start[t] lies on diagonal min(q*t, M) and end[t]
\* on diagonal min(q*t + q, M), with q = ceil(M / P).
C3_DiagonalPlacement ==
    \A t \in Tids :
        part_pc[t] = "done" =>
            /\ Diag(thread_coords[t]) = Min(Quantum * t, NumMergeItems)
            /\ Diag(thread_coord_ends[t]) =
                  Min(Quantum * t + Quantum, NumMergeItems)

\* a thread in the middle of the merge path has been placed: its start and
\* its end are on different diagonals strictly inside the grid
C3_Witness ==
    \E t \in Tids :
        /\ part_pc[t] = "done"
        /\ 0 < Diag(thread_coords[t])
        /\ Diag(thread_coords[t]) < Diag(thread_coord_ends[t])
        /\ Diag(thread_coord_ends[t]) < NumMergeItems

\* the row index the claim C4 describes for diagonal d
LargestRow(d) ==
    LET range == Max(0, d - num_nonzeros) .. Min(d, num_rows)
        ok(i) == row_offsets[i] <= d - i
    IN  CHOOSE i \in range : ok(i) /\ \A k \in range : ok(k) => k <= i

\* C4: MergePathSearch on diagonal d returns (i, d - i) with i the largest
\* value in [max(0, d - nnz), min(d, m)] such that row_offsets[i] <= d - i;
\* d = 0 gives (0, 0) and d = m + nnz gives (m, nnz).
C4_SearchResult ==
    search_pc = "done" =>
        /\ path_coordinate = Int2(LargestRow(diagonal),
                                  diagonal - LargestRow(diagonal))
        /\ diagonal = 0 => path_coordinate = Int2(0, 0)
        /\ diagonal = num_rows + num_nonzeros =>
              path_coordinate = Int2(num_rows, num_nonzeros)

\* a search has ended strictly inside the grid of a matrix that has an
\* empty row and a nonempty row
C4_Witness ==
    /\ search_pc = "done"
    /\ 0 < path_coordinate.x /\ path_coordinate.x < num_rows
    /\ 0 < path_coordinate.y /\ path_coordinate.y < num_nonzeros
    /\ \E i \in Rows : EmptyRow(i)

OnPath(c) ==
    /\ 0 <= c.x /\ c.x <= num_rows
    /\ 0 <= c.y /\ c.y <= num_nonzeros
    /\ row_offsets[c.x] <= c.y
    /\ c.x < num_rows => c.y <= row_offsets[c.x + 1]
    /\ c.x = num_rows => c.y = num_nonzeros

\* C5: every coordinate (i, j) the partitioner stores has 0 <= i <= m,
\* 0 <= j <= nnz, row_offsets[i] <= j, and j <= row_offsets[i+1] when i < m
\* (so i = m forces j = nnz).
C5_CoordinatesOnPath ==
    \A t \in Tids :
        part_pc[t] = "done" =>
            OnPath(thread_coords[t]) /\ OnPath(thread_coord_ends[t])

\* a stored coordinate lies strictly inside a row: after its first and
\* before its last nonzero
C5_Witness ==
    \E t \in Tids :
        /\ part_pc[t] = "done"
        /\ thread_coords[t].x < num_rows
        /\ row_offsets[thread_coords[t].x] < thread_coords[t].y
        /\ thread_coords[t].y < row_offsets[thread_coords[t].x + 1]

\* C6 as stated: every thread but the last spans exactly q merge items.
C6_EqualSharesAsStated ==
    PartitionDone =>
        /\ \A t \in 0 .. num_threads - 2 : Span(t) = Quantum
        /\ Span(num_threads - 1) <= Quantum

\* C6 (amended): every thread spans at most q merge items, exactly q when
\* q*(t+1) <= M; the threads that span fewer than q are a suffix of the
\* thread ids: the first of them spans M - q*t, every later one spans 0.
C6_Shares ==
    PartitionDone =>
        /\ \A t \in Tids : Span(t) <= Quantum
        /\ \A t \in Tids :
              Quantum * (t + 1) <= NumMergeItems => Span(t) = Quantum
        /\ \A t \in Tids :
              Span(t) < Quantum =>
                  /\ Span(t) = Max(0, NumMergeItems - Quantum * t)
                  /\ \A u \in Tids : u > t => Span(u) = 0

\* the partition is complete and a thread that is not the last spans fewer
\* than q merge items
C6_Witness ==
    /\ PartitionDone
    /\ \E t \in 0 .. num_threads - 2 : Span(t) < Quantum

AssignCount(i) ==
    Cardinality({n \in 1 .. Len(y_log[i]) : y_log[i][n].op = "assign"})

\* C7: in the parallel phase every row i is assigned by exactly one worker,
\* the one with start.x <= i < end.x, exactly once; no two workers are ever
\* about to write the same element of y; y is fully overwritten when the
\* fix-up starts.
C7_SingleWriter ==
    /\ PartitionDone => \A i \in Rows : Cardinality(Owners(i)) = 1
    /\ pc \in {"parallel", "fixup"} =>
          \A i \in Rows : AssignCount(i) <= 1 /\ Assigners(i) \subseteq Owners(i)
    /\ pc = "parallel" =>
          \A t, u \in Tids :
              (/\ t # u
               /\ worker_pc[t] = "rows" /\ worker_pc[u] = "rows"
               /\ thread_coord[t].x < thread_coord_end[t].x
               /\ thread_coord[u].x < thread_coord_end[u].x)
              => thread_coord[t].x # thread_coord[u].x
    /\ pc = "fixup" => \A i \in Rows : AssignCount(i) = 1

\* the fix-up is about to start after two different workers assigned rows
\* and a third carried out part of a row
C7_Witness ==
    /\ pc = "fixup" /\ fix_tid = 0
    /\ \E i, k \in Rows : Assigners(i) # {} /\ Assigners(k) # {}
                            /\ Assigners(i) # Assigners(k)
    /\ \E t \in 0 .. num_threads - 2 :
          row_carry_out[t] < num_rows /\ value_carry_out[t] > 0

RECURSIVE Ascending(_)
Ascending(S) ==
    IF S = {} THEN <<>>
    ELSE LET least == CHOOSE a \in S : \A b \in S : a <= b
         IN  <<least>> \o Ascending(S \ {least})

RECURSIVE RangeSum(_, _)
RangeSum(from, to) ==
    IF from < to THEN Product(from) + RangeSum(from + 1, to) ELSE 0

\* the first nonzero of row i that thread t holds
FirstHeld(t, i) ==
    IF thread_coords[t].x = i THEN thread_coords[t].y ELSE row_offsets[i]

RECURSIVE CarrySum(_, _)
CarrySum(S, i) ==
    IF S = {} THEN 0
    ELSE LET t == CHOOSE a \in S : TRUE
         IN  RangeSum(FirstHeld(t, i), thread_coord_ends[t].y)
                 + CarrySum(S \ {t}, i)

ExpectedLog(i) ==
    LET owner == CHOOSE t \in Tids : t \in Owners(i)
        adds  == Ascending(Carriers(i))
    IN  <<LogAssign(owner)>> \o [n \in 1 .. Len(adds) |-> LogAdd(adds[n])]

ExpectedY(i) ==
    LET owner == CHOOSE t \in Tids : t \in Owners(i)
    IN  RangeSum(FirstHeld(owner, i), row_offsets[i + 1])
            + CarrySum(Carriers(i), i)

\* C8: whatever the interleaving of the workers, a call ends with the same
\* y, and the writes into every row are the same sequence: the owner's
\* assignment, then the carry-outs in ascending thread id.
C8_Deterministic ==
    CallReturned =>
        \A i \in Rows :
            /\ y_log[i] = ExpectedLog(i)
            /\ vector_y_out[i] = ExpectedY(i)

\* a call has returned in which the fix-up added two carry-outs into one row
C8_Witness ==
    /\ CallReturned
    /\ \E i \in Rows : Len(y_log[i]) >= 3

\* C9: y after every later invocation with the same descriptors, matrix and
\* x equals y after the first invocation, whatever y held before it.
C9_Idempotent ==
    (pc = "ready" /\ calls >= 2) => vector_y_out = y_first

\* a second call has returned, with a row that is not zero and a carry-out
\* that the fix-up added into a row
C9_Witness ==
    /\ pc = "ready" /\ calls >= 2
    /\ \E i \in Rows : vector_y_out[i] > 0 /\ Len(y_log[i]) >= 2

\* C10: every row without nonzeros ends the call with y[i] = 0: what is
\* assigned to y[i] is an empty sum and so is every carry-out added into it.
C10_ZeroRows ==
    /\ CallReturned => \A i \in Rows : EmptyRow(i) => vector_y_out[i] = 0
    /\ pc \in {"parallel", "fixup"} =>
          \A i \in Rows :
              (EmptyRow(i) /\ y_log[i] # <<>>) => vector_y_out[i] = 0
    /\ pc = "fixup" =>
          \A t \in Tids :
              (row_carry_out[t] < num_rows /\ EmptyRow(row_carry_out[t]))
                  => value_carry_out[t] = 0

\* a call has returned in which the fix-up added a carry-out into a row
\* without nonzeros, for a matrix that has nonzeros
C10_Witness ==
    /\ CallReturned
    /\ num_nonzeros > 0
    /\ \E i \in Rows : EmptyRow(i) /\ Len(y_log[i]) >= 2

\* C11: a call of OmpMergePartitionMatrix with P < 1 or with an empty or
\* malformed matrix is rejected at entry: it never returns normally.
C11_RejectsAtEntry == ~ValidArguments => pc # "ready"

\* C12: for every well-formed matrix with nnz <= 2^31 - 1 and every P >= 1
\* no index computation of the partitioner leaves the int range, so that the
\* descriptors are those of unbounded integers: the first starts at (0, 0)
\* and the last ends at (m, nnz).
C12_Int32Suffices ==
    \A tid \in Tids :
        part_pc[tid] = "done" =>
            /\ PartitionFits(tid)
            /\ tid = 0 => thread_coords[tid] = Int2(0, 0)
            /\ tid = num_threads - 1 =>
                  thread_coord_ends[tid] = Int2(num_rows, num_nonzeros)

Degenerate == num_rows <= 1 \/ num_cols <= 1 \/ num_nonzeros <= 1

\* C13: whenever the matrix has m <= 1 or n <= 1 or nnz <= 1, whichever
\* source it came from, RunTests reports a trivial dataset and performs no
\* timing run: with such a matrix the driver is still choosing its branch or
\* has exited through the trivial-dataset report.
C13_TrivialDataset ==
    Degenerate => pc \in Branches \cup {"trivial", "exit1"}

\* the threads whose range of nonzeros holds part of row i
Holders(i) ==
    {t \in Tids : Max(thread_coords[t].y, row_offsets[i])
                    < Min(thread_coord_ends[t].y, row_offsets[i + 1])}
SplitRow(i) == Cardinality(Holders(i)) >= 2
FirstHolder(i) == CHOOSE t \in Holders(i) : \A u \in Holders(i) : t <= u
Adders(i) == {y_log[i][k].tid : k \in {n \in 1 .. Len(y_log[i]) :
                                           y_log[i][n].op = "add"}}

\* C14 as stated: of the threads that hold part of a split row i, the
\* first assigns y[i] and every later one is added by the fix-up.
C14_FirstAssignsAsStated ==
    CallReturned =>
        \A i \in Rows :
            SplitRow(i) =>
                /\ Assigners(i) = {FirstHolder(i)}
                /\ Holders(i) \ {FirstHolder(i)} \subseteq Adders(i)

\* C14 (amended): y[i] of a split row is assigned by the thread whose range
\* holds the end of row i (start.x <= i < end.x), which comes after every
\* other holder, with the sum of its own (possibly empty) part; every
\* earlier holder carries its part out to row i and the fix-up adds it (any
\* other carry-out the fix-up adds into row i is 0).
C14_OwnerAssigns ==
    /\ pc = "fixup" /\ fix_tid = 0 =>
          \A i \in Rows :
              SplitRow(i) =>
                  \A t \in Owners(i) :
                      vector_y_out[i] = RangeSum(FirstHeld(t, i), row_offsets[i + 1])
    /\ pc = "fixup" \/ CallReturned =>
          \A i \in Rows :
              SplitRow(i) =>
                  /\ Assigners(i) = Owners(i)
                  /\ \A t \in Holders(i) \ Owners(i) :
                        /\ \A u \in Owners(i) : t < u
                        /\ row_carry_out[t] = i
                        /\ value_carry_out[t] =
                              RangeSum(FirstHeld(t, i), thread_coord_ends[t].y)
    /\ CallReturned =>
          \A i \in Rows :
              SplitRow(i) =>
                  /\ Holders(i) \ Owners(i) \subseteq Adders(i)
                  /\ \A t \in Adders(i) \ Holders(i) : value_carry_out[t] = 0

\* a call has returned on a matrix with a split row of which the owner
\* holds a part, and the fix-up has added an earlier holder's part into it
C14_Witness ==
    /\ CallReturned
    /\ \E i \in Rows : SplitRow(i) /\ Owners(i) \cap Holders(i) # {}
                         /\ Adders(i) \cap Holders(i) # {}

CarryStored(t) ==
    /\ worker_pc[t] = "done"
    /\ row_carry_out[t] # Unset
    /\ value_carry_out[t] # Unset
AssignLog(i) == SelectSeq(y_log[i], LAMBDA e : e.op = "assign")
\* a step taken once the fix-up has started leaves the carry-out arrays and
\* the workers alone, and assigns no element of y
FixupStepIsSerial ==
    pc = "fixup" =>
        /\ row_carry_out' = row_carry_out
        /\ value_carry_out' = value_carry_out
        /\ worker_pc' = worker_pc
        /\ pc' = "fixup" =>
              \A i \in Rows :
                  /\ AssignLog(i)' = AssignLog(i)
                  /\ vector_y_out'[i] # vector_y_out[i] =>
                        /\ Len(y_log'[i]) = Len(y_log[i]) + 1
                        /\ y_log'[i][Len(y_log'[i])].op = "add"

\* C15: in every call the fix-up starts, and an addition is made, only when
\* all P workers have stored their carry-out, and once the fix-up has
\* started no worker writes y or a carry-out slot.
C15_Barrier ==
    /\ [](pc = "fixup" => \A t \in Tids : CarryStored(t))
    /\ []((\E i \in Rows : Adders(i) # {}) => \A t \in Tids : CarryStored(t))
    /\ [][FixupStepIsSerial]_vars

\* the fix-up has added a carry-out with a nonzero partial sum while every
\* one of three workers had its carry-out stored
C15_Witness ==
    /\ pc = "fixup"
    /\ num_threads = MaxThreads
    /\ \E i \in Rows : Adders(i) # {} /\ vector_y_out[i] > 0
    /\ \A t \in Tids : CarryStored(t)

\* how many times nonzero j has been read in the current call
ReadCount(j) ==
    Cardinality({c \in Tids \X (1 .. MaxNnz) :
                    c[2] <= Len(nz_log[c[1]]) /\ nz_log[c[1]][c[2]] = j})

\* C16: in one call worker t reads exactly the nonzero indices in
\* [start[t].y, end[t].y), each once, so that every nonzero j in [0, nnz) is
\* read by exactly one worker exactly once (and never twice meanwhile).
C16_EachNonzeroOnce ==
    /\ pc = "parallel" =>
          /\ \A j \in 0 .. num_nonzeros - 1 : ReadCount(j) <= 1
          /\ \A t \in Tids : Len(nz_log[t]) <= MaxNnz
    /\ pc = "fixup" \/ CallReturned =>
          /\ \A t \in Tids :
                nz_log[t] = ReadRange(thread_coords[t].y, thread_coord_ends[t].y)
          /\ \A j \in 0 .. num_nonzeros - 1 : ReadCount(j) = 1

\* a call has returned in which each of three workers read a nonzero
C16_Witness ==
    /\ CallReturned
    /\ num_threads = MaxThreads
    /\ \A t \in Tids : nz_log[t] # <<>>

\* the step of the merge path from (i, j): down when row i ends at j,
\* across otherwise
PathStep(c) ==
    IF c.x < num_rows /\ c.y = row_offsets[c.x + 1]
    THEN Int2(c.x + 1, c.y)
    ELSE Int2(c.x, c.y + 1)

\* C17: staircase and tie-breaking: if MergePathSearch returns (i, j) for a
\* diagonal d < m + nnz, then for d + 1 it returns (i + 1, j) when i < m and
\* j = row_offsets[i+1], and (i, j + 1) otherwise.
C17_Staircase ==
    (search_pc = "done" /\ diagonal < num_rows + num_nonzeros) =>
        MergePathSearch(diagonal + 1, num_rows, num_nonzeros)
            = PathStep(path_coordinate)

\* a search has ended at the end of a row without nonzeros, before a nonzero
\* of a later row
C17_Witness ==
    /\ search_pc = "done"
    /\ path_coordinate.x < num_rows
    /\ EmptyRow(path_coordinate.x)
    /\ path_coordinate.y = row_offsets[path_coordinate.x + 1]
    /\ path_coordinate.y < num_nonzeros

AddLog(i) == SelectSeq(y_log[i], LAMBDA e : e.op = "add")
\* the sum of the logged reads of worker t, from position n on
RECURSIVE ReadSum(_, _)
ReadSum(t, n) ==
    IF n > Len(nz_log[t]) THEN 0 ELSE Product(nz_log[t][n]) + ReadSum(t, n + 1)
RECURSIVE SumOver(_, _)
SumOver(f, S) ==
    IF S = {} THEN 0
    ELSE LET a == CHOOSE b \in S : TRUE IN f[a] + SumOver(f, S \ {a})

\* C18: no contribution is lost by the fix-up: the last thread's carry-out
\* row is m, every carry-out whose row is m has partial sum 0, the fix-up
\* adds exactly the carry-outs of t in [0, P-2] with row_carry_out[t] < m,
\* each once, and after the call the elements of y add up to everything the
\* workers read.
C18_NothingLost ==
    /\ pc = "fixup" \/ CallReturned =>
          /\ row_carry_out[num_threads - 1] = num_rows
          /\ \A t \in Tids : row_carry_out[t] = num_rows => value_carry_out[t] = 0
    /\ CallReturned =>
          /\ \A i \in Rows :
                /\ Adders(i) = {t \in 0 .. num_threads - 2 : row_carry_out[t] = i}
                /\ Len(AddLog(i)) = Cardinality(Adders(i))
          /\ SumOver(vector_y_out, Rows)
                = SumOver([t \in Tids |-> ReadSum(t, 1)], Tids)

\* a call has returned in which a thread before the last had an empty range
\* at the end of the path and the fix-up added a nonzero partial sum
C18_Witness ==
    /\ CallReturned
    /\ \E t \in 0 .. num_threads - 2 : row_carry_out[t] = num_rows
    /\ \E t \in 0 .. num_threads - 2 :
          row_carry_out[t] < num_rows /\ value_carry_out[t] > 0

\* what the two searches of thread t read
ReadsOfThread(t) ==
    UNION {SearchReads(d, SearchLo(d, num_nonzeros), SearchHi(d, num_rows)) :
              d \in {StartDiagonal(t), EndDiagonal(t)}}

\* C19: index safety for a well-formed matrix and 1 <= P <= 256: the
\* searches read row_offsets within [0, m] and list B within [0, nnz); a
\* worker about to sum a row has its row in [0, m); values and
\* column_indices are read within [0, nnz) (and x within [0, n)); the fix-up
\* writes y within [0, m); carry-out slots used are within [0, 256).
C19_IndexSafety ==
    num_threads <= CarrySlots =>
        /\ \A t \in Tids : \A r \in ReadsOfThread(t) :
              r[1] \in 0 .. num_rows /\ r[2] \in 0 .. num_nonzeros - 1
        /\ pc = "parallel" =>
              \A t \in Tids :
                  (worker_pc[t] = "rows"
                       /\ thread_coord[t].x < thread_coord_end[t].x)
                      => thread_coord[t].x \in 0 .. num_rows - 1
        /\ \A t \in Tids : \A k \in 1 .. Len(nz_log[t]) :
              /\ nz_log[t][k] \in 0 .. num_nonzeros - 1
              /\ column_indices[nz_log[t][k]] \in 0 .. num_cols - 1
        /\ \A t \in Tids :
              row_carry_out[t] # Unset =>
                  t \in 0 .. CarrySlots - 1 /\ row_carry_out[t] \in 0 .. num_rows
        /\ (pc = "fixup" /\ fix_tid < FixupBound) =>
              /\ fix_tid \in 0 .. CarrySlots - 1
              /\ row_carry_out[fix_tid] \in 0 .. num_rows

\* the fix-up is running with three threads after a search has read the
\* last element of row_offsets and one has read the last element of list B
C19_Witness ==
    /\ pc = "fixup"
    /\ num_threads = MaxThreads
    /\ num_nonzeros = MaxNnz
    /\ \E t \in Tids : \E r \in ReadsOfThread(t) : r[1] = num_rows
    /\ \E t \in Tids : \E r \in ReadsOfThread(t) : r[2] = num_nonzeros - 1
    /\ \E t \in Tids : nz_log[t] # <<>>

=============================================================================
